---------------------------- MODULE Spec2Model ----------------------------
(***************************************************************************)
(* A model of src/src/server.js: the database-schema MCP server.  The      *)
(* request handlers (list_resources, read_resource, call_tool) run on one  *)
(* event loop; each `await` is a suspension point, so every action below   *)
(* is one continuation: the completion of the awaited operation together   *)
(* with the synchronous code that follows it up to the next await or the   *)
(* handler's return.                                                       *)
(*                                                                         *)
(* Strings that the code takes apart (URLs, table names, path segments)    *)
(* are sequences of one-character strings.                                 *)
(***************************************************************************)
EXTENDS Integers, Sequences, FiniteSets, TLC

(***************************************************************************)
(* Bounds of the model.                                                    *)
(***************************************************************************)
NumReqs == 2        \* request slots: requests that can be in flight at once
PoolMax == 1        \* the pool's maximum number of connections
MaxRows == 1        \* cap on the persisted row counter

(***************************************************************************)
(* Character-level string helpers.  With(x, F) evaluates x once and        *)
(* applies F to the value, as a JavaScript call evaluates its argument     *)
(* before the callee runs.                                                 *)
(***************************************************************************)
With(x, F(_)) == CHOOSE y \in {F(v) : v \in {x}} : TRUE

Last(s) == With(s, LAMBDA v : v[Len(v)])

Front(s) == With(s, LAMBDA v : SubSeq(v, 1, Len(v) - 1))

Drop(s, n) == With(s, LAMBDA v : SubSeq(v, n + 1, Len(v)))

\* index of the first character of s that is in cs, 0 when there is none
FirstIndex(s, cs) ==
  With(s, LAMBDA v :
    IF \E i \in 1..Len(v) : v[i] \in cs
    THEN CHOOSE i \in 1..Len(v) : v[i] \in cs /\ \A j \in 1..(i - 1) : v[j] \notin cs
    ELSE 0)

\* the part of s before the first character in cs (all of s when none)
Before(s, cs) ==
  With(s, LAMBDA v :
    With(FirstIndex(v, cs), LAMBDA i : IF i = 0 THEN v ELSE SubSeq(v, 1, i - 1)))

\* the part of s from the first character in cs on (empty when none)
From(s, cs) ==
  With(s, LAMBDA v :
    With(FirstIndex(v, cs), LAMBDA i : IF i = 0 THEN <<>> ELSE SubSeq(v, i, Len(v))))

StartsWith(s, p) ==
  With(s, LAMBDA v : Len(v) >= Len(p) /\ SubSeq(v, 1, Len(p)) = p)

Contains(s, p) ==
  With(s, LAMBDA v :
    \E i \in 0..(Len(v) - Len(p)) : SubSeq(v, i + 1, i + Len(p)) = p)

\* String.prototype.split(sep) for a one-character separator
RECURSIVE Split(_, _)
Split(s, sep) ==
  With(s, LAMBDA v :
    With(FirstIndex(v, {sep}), LAMBDA i :
      IF i = 0 THEN <<v>>
      ELSE <<SubSeq(v, 1, i - 1)>> \o Split(Drop(v, i), sep)))

RECURSIVE Concat(_)
Concat(ss) ==
  With(ss, LAMBDA v : IF v = <<>> THEN <<>> ELSE Head(v) \o Concat(Tail(v)))

(***************************************************************************)
(* The URL class (WHATWG URL, as implemented by Node) for the schemes the   *)
(* server meets: non-special schemes such as postgres: and postgresql:.    *)
(* A parsed URL is a record; `path` is the list of path segments of a      *)
(* hierarchical URL, `opaque` the path of a URL without "//" or "/" after  *)
(* the scheme.                                                             *)
(***************************************************************************)
SchemeChars ==
  {"a", "b", "c", "d", "e", "g", "h", "m", "o", "p", "q", "r", "s", "t", "u", "l"}

InvalidUrl == [valid |-> FALSE]

\* the path percent-encode set, restricted to the characters of the model
PercentEncode(seg) ==
  With(seg, LAMBDA v :
    Concat([i \in 1..Len(v) |->
              IF v[i] = " " THEN <<"%", "2", "0">> ELSE <<v[i]>>]))

Shorten(path) == With(path, LAMBDA v : IF v = <<>> THEN <<>> ELSE Front(v))

Dot == <<".">>
DotDot == <<".", ".">>

\* the path state of the URL parser: segs are the "/"-separated buffers still
\* to be consumed, the last one ending at the end of the path
RECURSIVE PathState(_, _)
PathState(path, segs) ==
  With(path, LAMBDA pth :
    With(segs, LAMBDA sgs :
      IF sgs = <<>> THEN pth
      ELSE LET buf  == Head(sgs)
               last == Len(sgs) = 1
           IN  IF buf = DotDot
               THEN PathState(IF last THEN Append(Shorten(pth), <<>>) ELSE Shorten(pth),
                              Tail(sgs))
               ELSE IF buf = Dot
               THEN PathState(IF last THEN Append(pth, <<>>) ELSE pth, Tail(sgs))
               ELSE PathState(Append(pth, PercentEncode(buf)), Tail(sgs))))

\* query and fragment of the text that follows the path
QueryOf(rest) ==
  With(rest, LAMBDA v :
    IF v # <<>> /\ Head(v) = "?"
    THEN [has |-> TRUE, text |-> PercentEncode(Before(Tail(v), {"#"}))]
    ELSE [has |-> FALSE, text |-> <<>>])

FragmentOf(rest) ==
  With(From(rest, {"#"}), LAMBDA f :
    IF f = <<>> THEN [has |-> FALSE, text |-> <<>>]
    ELSE [has |-> TRUE, text |-> PercentEncode(Tail(f))])

\* the part of a URL after "scheme://"
ParseHierarchical(scheme, after) ==
  With(Before(after, {"/", "?", "#"}), LAMBDA auth :
  With(From(after, {"/", "?", "#"}), LAMBDA tail :
  With(FirstIndex(auth, {"@"}), LAMBDA at :
  With(IF at = 0 THEN <<>> ELSE SubSeq(auth, 1, at - 1), LAMBDA cred :
  With(Before(tail, {"?", "#"}), LAMBDA pstr :
  With(From(tail, {"?", "#"}), LAMBDA qf :
    [valid    |-> TRUE,
     scheme   |-> scheme,
     hasHost  |-> TRUE,
     username |-> Before(cred, {":"}),
     password |-> With(From(cred, {":"}), LAMBDA p :
                    IF p = <<>> THEN <<>> ELSE Tail(p)),
     host     |-> Drop(auth, at),
     isOpaque |-> FALSE,
     opaque   |-> <<>>,
     path     |-> IF pstr = <<>> THEN <<>>
                  ELSE PathState(<<>>, Tail(Split(pstr, "/"))),
     query    |-> QueryOf(qf),
     fragment |-> FragmentOf(qf)]))))))

\* the part of a URL after "scheme:" when no "//" follows
ParseNoAuthority(scheme, rest) ==
  With(Before(rest, {"?", "#"}), LAMBDA pstr :
  With(From(rest, {"?", "#"}), LAMBDA qf :
  With(pstr # <<>> /\ Head(pstr) = "/", LAMBDA hier :
    [valid    |-> TRUE,
     scheme   |-> scheme,
     hasHost  |-> FALSE,
     username |-> <<>>,
     password |-> <<>>,
     host     |-> <<>>,
     isOpaque |-> ~hier,
     opaque   |-> IF hier THEN <<>> ELSE pstr,
     path     |-> IF hier THEN PathState(<<>>, Tail(Split(pstr, "/"))) ELSE <<>>,
     query    |-> QueryOf(qf),
     fragment |-> FragmentOf(qf)])))

\* new URL(s): an absolute URL string
ParseUrl(s) ==
  With(s, LAMBDA v :
  With(FirstIndex(v, {":", "/", "?", "#"}), LAMBDA i :
    IF i <= 1 \/ v[i] # ":" \/ \E j \in 1..(i - 1) : v[j] \notin SchemeChars
    THEN InvalidUrl
    ELSE With(Drop(v, i), LAMBDA rest :
           IF StartsWith(rest, <<"/", "/">>)
           THEN ParseHierarchical(SubSeq(v, 1, i - 1), Drop(rest, 2))
           ELSE ParseNoAuthority(SubSeq(v, 1, i - 1), rest))))

\* new URL(rel, base) for a base with a hierarchical path
ResolveUrl(rel, base) ==
  With(rel, LAMBDA rl :
  With(base, LAMBDA bs :
  With(ParseUrl(rl), LAMBDA abs :
    IF abs.valid THEN abs
    ELSE
      With(Before(rl, {"?", "#"}), LAMBDA pstr :
      With(From(rl, {"?", "#"}), LAMBDA qf :
        IF pstr = <<>>
        THEN [bs EXCEPT !.query = IF QueryOf(qf).has THEN QueryOf(qf) ELSE bs.query,
                        !.fragment = FragmentOf(qf)]
        ELSE IF Head(pstr) = "/"
        THEN [bs EXCEPT !.path = PathState(<<>>, Tail(Split(pstr, "/"))),
                        !.query = QueryOf(qf),
                        !.fragment = FragmentOf(qf)]
        ELSE [bs EXCEPT !.path = PathState(Shorten(bs.path), Split(pstr, "/")),
                        !.query = QueryOf(qf),
                        !.fragment = FragmentOf(qf)])))))

\* url.pathname
Pathname(url) ==
  With(url, LAMBDA u :
    IF u.isOpaque THEN u.opaque
    ELSE Concat([i \in 1..Len(u.path) |-> <<"/">> \o u.path[i]]))

\* url.href
Href(url) ==
  With(url, LAMBDA u :
    u.scheme \o <<":">>
    \o (IF u.hasHost
        THEN <<"/", "/">>
             \o (IF u.username # <<>> \/ u.password # <<>>
                 THEN u.username
                      \o (IF u.password # <<>> THEN <<":">> \o u.password ELSE <<>>)
                      \o <<"@">>
                 ELSE <<>>)
             \o u.host
        ELSE <<>>)
    \o Pathname(u)
    \o (IF u.query.has THEN <<"?">> \o u.query.text ELSE <<>>)
    \o (IF u.fragment.has THEN <<"#">> \o u.fragment.text ELSE <<>>))

(***************************************************************************)
(* The connection string (process.argv[2]) and the resource base URL.      *)
(***************************************************************************)
Postgres == <<"p", "o", "s", "t", "g", "r", "e", "s">>

\* a connection string assembled from its parts (what an operator passes)
ConnString(scheme, user, pw, host, db) ==
  scheme \o <<":", "/", "/">> \o user
  \o (IF pw = <<>> THEN <<>> ELSE <<":">> \o pw)
  \o <<"@">> \o host \o <<"/">> \o db

Schemes   == {Postgres, Postgres \o <<"q", "l">>}
Passwords == {<<>>, <<"p", "w">>, <<"s", "3">>}
UserName  == <<"u">>
HostName  == <<"h">>
DbName    == <<"d", "b">>

DatabaseUrls ==
  {ConnString(sc, UserName, pw, HostName, DbName) : sc \in Schemes, pw \in Passwords}

DefaultUrl == ConnString(Postgres, UserName, <<"p", "w">>, HostName, DbName)

\* resourceBaseUrl.password = ""  (mutant: the password is left in place)
ResourceBaseUrlKeepsPassword(url) ==
  [ParseUrl(url) EXCEPT !.scheme = Postgres]

ResourceBaseUrl(url) ==
  [ParseUrl(url) EXCEPT !.scheme = Postgres, !.password = <<>>]

SCHEMA_PATH == <<"s", "c", "h", "e", "m", "a">>

\* new URL(`${row.table_name}/${SCHEMA_PATH}`, resourceBaseUrl).href
ResourceUri(tableName, url) ==
  Href(ResolveUrl(tableName \o <<"/">> \o SCHEMA_PATH, ResourceBaseUrl(url)))

\* lines 65-69: resourceUrl, pathComponents, schema, tableName
\* (mutant: the two pops are taken in the other order)
ParseAddressSwapped(uri) ==
  With(ParseUrl(uri), LAMBDA u :
    IF ~u.valid THEN [valid |-> FALSE]
    ELSE With(Split(Pathname(u), "/"), LAMBDA pathComponents :
         With(Front(pathComponents), LAMBDA rest :
           [valid     |-> TRUE,
            schema    |-> IF rest = <<>> THEN <<>> ELSE Last(rest),
            hasTable  |-> TRUE,
            tableName |-> Last(pathComponents)])))

ParseAddress(uri) ==
  With(ParseUrl(uri), LAMBDA u :
    IF ~u.valid THEN [valid |-> FALSE]
    ELSE With(Split(Pathname(u), "/"), LAMBDA pathComponents :
         With(Front(pathComponents), LAMBDA rest :
           [valid     |-> TRUE,
            schema    |-> Last(pathComponents),
            hasTable  |-> rest # <<>>,
            tableName |-> IF rest = <<>> THEN <<>> ELSE Last(rest)])))

(***************************************************************************)
(* The database catalog (information_schema), as the catalog queries see   *)
(* it.  Table names are character sequences; the other catalog values are  *)
(* not taken apart by the server and are plain strings.                    *)
(***************************************************************************)
T_u     == <<"u">>
T_o     == <<"o">>
T_space == <<"m", " ", "t">>
T_dots  == <<".", ".">>

\* a row of information_schema.tables
Tab(schema, name) == [table_schema |-> schema, table_name |-> name]

\* a row of information_schema.columns
Col(schema, table, name, type, nullable, default) ==
  [table_schema |-> schema, table_name |-> table, column_name |-> name,
   data_type |-> type, is_nullable |-> nullable, column_default |-> default]

\* a row of information_schema.table_constraints
Con(schema, name, table, type) ==
  [constraint_schema |-> schema, constraint_name |-> name,
   table_schema |-> schema, table_name |-> table, constraint_type |-> type]

\* a row of information_schema.key_column_usage (a column the constraint
\* constrains) or of information_schema.constraint_column_usage (a column
\* the constraint uses: the key's own column, or the referenced column of a
\* foreign key)
Use(schema, name, table, column) ==
  [constraint_schema |-> schema, constraint_name |-> name,
   table_schema |-> schema, table_name |-> table, column_name |-> column]

\* PostgreSQL keeps the names of foreign-key constraints unique per table,
\* not per schema.
Catalogs ==
  << \* users/orders, with a same-named table in another schema
     [tables  |-> <<Tab("public", T_u), Tab("audit", T_u), Tab("public", T_o)>>,
      columns |-> <<Col("public", T_u, "id", "integer", "NO", "nextval"),
                    Col("public", T_u, "name", "text", "NO", "null"),
                    Col("audit", T_u, "ts", "timestamp", "YES", "now"),
                    Col("public", T_o, "id", "integer", "NO", "null"),
                    Col("public", T_o, "user_id", "integer", "YES", "null")>>,
      table_constraints |->
                  <<Con("public", "u_pkey", T_u, "PRIMARY KEY"),
                    Con("public", "o_pkey", T_o, "PRIMARY KEY"),
                    Con("public", "orders_user_fk", T_o, "FOREIGN KEY")>>,
      key_column_usage |->
                  <<Use("public", "u_pkey", T_u, "id"),
                    Use("public", "o_pkey", T_o, "id"),
                    Use("public", "orders_user_fk", T_o, "user_id")>>,
      constraint_column_usage |->
                  <<Use("public", "u_pkey", T_u, "id"),
                    Use("public", "o_pkey", T_o, "id"),
                    Use("public", "orders_user_fk", T_u, "id")>>],
     \* quoted identifiers
     [tables  |-> <<Tab("public", T_space), Tab("public", T_dots)>>,
      columns |-> <<Col("public", T_space, "a", "text", "YES", "null"),
                    Col("public", T_dots, "b", "integer", "NO", "null")>>,
      table_constraints |-> <<Con("public", "dots_pkey", T_dots, "PRIMARY KEY")>>,
      key_column_usage |-> <<Use("public", "dots_pkey", T_dots, "b")>>,
      constraint_column_usage |-> <<Use("public", "dots_pkey", T_dots, "b")>>],
     \* a table without columns, and nothing else
     [tables  |-> <<Tab("public", T_o)>>,
      columns |-> <<>>,
      table_constraints |-> <<>>,
      key_column_usage |-> <<>>,
      constraint_column_usage |-> <<>>],
     \* two tables that reference each other through foreign keys of the
     \* same constraint name
     [tables  |-> <<Tab("public", T_u), Tab("public", T_o)>>,
      columns |-> <<Col("public", T_u, "id", "integer", "NO", "null"),
                    Col("public", T_u, "last_order", "integer", "YES", "null"),
                    Col("public", T_o, "id", "integer", "NO", "null"),
                    Col("public", T_o, "user_id", "integer", "NO", "null")>>,
      table_constraints |->
                  <<Con("public", "u_pkey", T_u, "PRIMARY KEY"),
                    Con("public", "o_pkey", T_o, "PRIMARY KEY"),
                    Con("public", "fk", T_u, "FOREIGN KEY"),
                    Con("public", "fk", T_o, "FOREIGN KEY")>>,
      key_column_usage |->
                  <<Use("public", "u_pkey", T_u, "id"),
                    Use("public", "o_pkey", T_o, "id"),
                    Use("public", "fk", T_u, "last_order"),
                    Use("public", "fk", T_o, "user_id")>>,
      constraint_column_usage |->
                  <<Use("public", "u_pkey", T_u, "id"),
                    Use("public", "o_pkey", T_o, "id"),
                    Use("public", "fk", T_o, "id"),
                    Use("public", "fk", T_u, "id")>>] >>

IsPublic(t) == t.table_schema = "public"

\* SELECT table_name FROM information_schema.tables WHERE table_schema = 'public'
TablesQuery(cat) ==
  LET pub == SelectSeq(cat.tables, IsPublic)
  IN  [i \in 1..Len(pub) |-> [table_name |-> pub[i].table_name]]

\* SELECT ... FROM information_schema.columns WHERE table_name = $1
\* (mutant: the WHERE clause is dropped)
ColumnsQueryUnfiltered(cat, p) == cat.columns

\* $1 undefined is sent as NULL, which equals no table name
ColumnsQuery(cat, p) ==
  LET Match(row) == p.hasTable /\ row.table_name = p.tableName
  IN  SelectSeq(cat.columns, Match)

RECURSIVE Flatten(_)
Flatten(ss) == IF ss = <<>> THEN <<>> ELSE Head(ss) \o Flatten(Tail(ss))

\* a JOIN b ON On(x, y), as the sequence of the pairs [l |-> x, r |-> y]
Join(a, b, On(_, _)) ==
  Flatten([i \in 1..Len(a) |->
             LET m == SelectSeq(b, LAMBDA y : On(a[i], y))
             IN  [j \in 1..Len(m) |-> [l |-> a[i], r |-> m[j]]]])

\* SELECT c.column_name FROM table_constraints tc
\*   JOIN constraint_column_usage ccu USING (constraint_schema, constraint_name)
\*   JOIN columns c ON c.table_schema = tc.constraint_schema
\*     AND tc.table_name = c.table_name AND ccu.column_name = c.column_name
\*   WHERE constraint_type = 'PRIMARY KEY' AND tc.table_name = $1
PrimaryKeysQuery(cat, p) ==
  LET tc == SelectSeq(cat.table_constraints,
                      LAMBDA x : /\ x.constraint_type = "PRIMARY KEY"
                                 /\ p.hasTable /\ x.table_name = p.tableName)
      tc_ccu == Join(tc, cat.constraint_column_usage,
                     LAMBDA x, y : /\ x.constraint_schema = y.constraint_schema
                                   /\ x.constraint_name = y.constraint_name)
      rows == Join(tc_ccu, cat.columns,
                   LAMBDA xy, c : /\ c.table_schema = xy.l.constraint_schema
                                  /\ xy.l.table_name = c.table_name
                                  /\ xy.r.column_name = c.column_name)
  IN  [i \in 1..Len(rows) |->
         [table_name |-> rows[i].l.l.table_name,
          column_name |-> rows[i].r.column_name]]

\* SELECT tc.constraint_name, kcu.column_name, ccu.table_name AS
\*   foreign_table_name, ccu.column_name AS foreign_column_name
\*   FROM table_constraints tc
\*   JOIN key_column_usage kcu ON tc.constraint_name = kcu.constraint_name
\*     AND tc.table_schema = kcu.table_schema
\*   JOIN constraint_column_usage ccu ON ccu.constraint_name = tc.constraint_name
\*     AND ccu.table_schema = tc.table_schema
\*   WHERE tc.constraint_type = 'FOREIGN KEY' AND tc.table_name = $1
ForeignKeysQuery(cat, p) ==
  LET tc == SelectSeq(cat.table_constraints,
                      LAMBDA x : /\ x.constraint_type = "FOREIGN KEY"
                                 /\ p.hasTable /\ x.table_name = p.tableName)
      tc_kcu == Join(tc, cat.key_column_usage,
                     LAMBDA x, y : /\ x.constraint_name = y.constraint_name
                                   /\ x.table_schema = y.table_schema)
      rows == Join(tc_kcu, cat.constraint_column_usage,
                   LAMBDA xy, u : /\ u.constraint_name = xy.l.constraint_name
                                  /\ u.table_schema = xy.l.table_schema)
  IN  [i \in 1..Len(rows) |->
         [table_name |-> rows[i].l.l.table_name,
          constraint_name |-> rows[i].l.l.constraint_name,
          column_name |-> rows[i].l.r.column_name,
          foreign_table_name |-> rows[i].r.table_name,
          foreign_column_name |-> rows[i].r.column_name]]

\* rows.map(col => ({name, type, nullable, default}))
\* (mutant: the descriptors come out in reverse order, the last row left out)
ColumnDescriptorsReversed(rows) ==
  [i \in 1..(IF rows = <<>> THEN 0 ELSE Len(rows) - 1) |->
     [name     |-> rows[Len(rows) - i].column_name,
      type     |-> rows[Len(rows) - i].data_type,
      nullable |-> rows[Len(rows) - i].is_nullable = "YES",
      default  |-> rows[Len(rows) - i].column_default]]

ColumnDescriptors(rows) ==
  [i \in 1..Len(rows) |->
     [name     |-> rows[i].column_name,
      type     |-> rows[i].data_type,
      nullable |-> rows[i].is_nullable = "YES",
      default  |-> rows[i].column_default]]


(***************************************************************************)
(* The database session behind one pooled connection.  client.query(text)  *)
(* sends `text` as one simple-query message; a text may hold several       *)
(* statements, modelled by their kinds:                                    *)
(*   "select"   a read                                                     *)
(*   "insert"   a write (one more row)                                     *)
(*   "error"    a statement that fails when executed                       *)
(*   "begin_ro" BEGIN TRANSACTION READ ONLY                                *)
(*   "commit"   COMMIT            "rollback"  ROLLBACK                     *)
(* txn is the session's transaction status: "idle" (none open), "ro" (a    *)
(* read-only transaction block is open) or "aborted" (a failed block, in   *)
(* which every statement but COMMIT/ROLLBACK is refused).  Statements      *)
(* outside a block run in the message's implicit transaction, which is     *)
(* committed at the end of the message and discarded when one fails.       *)
(***************************************************************************)
Min(a, b) == IF a < b THEN a ELSE b

RunStatement(k, st) ==
  IF ~st.ok THEN st
  ELSE IF st.txn = "aborted"
  THEN IF k \in {"commit", "rollback"}
       THEN [st EXCEPT !.txn = "idle", !.rows = <<>>]
       ELSE [st EXCEPT !.ok = FALSE]
  ELSE IF k = "select"
  THEN [st EXCEPT !.rows = <<[count |-> st.persisted + st.pend]>>]
  ELSE IF k = "insert"
  THEN IF st.txn = "ro"
       THEN [st EXCEPT !.ok = FALSE, !.txn = "aborted"]
       ELSE [st EXCEPT !.pend = st.pend + 1, !.rows = <<>>]
  ELSE IF k = "error"
  THEN IF st.txn = "ro"
       THEN [st EXCEPT !.ok = FALSE, !.txn = "aborted"]
       ELSE [st EXCEPT !.ok = FALSE, !.pend = 0]
  ELSE IF k = "begin_ro"
  THEN [st EXCEPT !.txn = "ro", !.rows = <<>>]
  ELSE IF k = "commit"
  THEN [st EXCEPT !.txn = "idle", !.rows = <<>>,
                  !.persisted = Min(st.persisted + st.pend, MaxRows), !.pend = 0]
  ELSE \* "rollback"
       [st EXCEPT !.txn = "idle", !.rows = <<>>, !.pend = 0]

RECURSIVE RunStatements(_, _)
RunStatements(text, st) ==
  IF text = <<>> THEN st
  ELSE RunStatements(Tail(text), RunStatement(Head(text), st))

\* one simple-query message on a session in status t with n persisted rows
RunQuery(text, t, n) ==
  LET st == RunStatements(text, [txn |-> t, persisted |-> n, pend |-> 0,
                                 ok |-> TRUE, rows |-> <<>>])
  IN  [ok        |-> st.ok,
       txn       |-> st.txn,
       persisted |-> IF st.ok THEN Min(st.persisted + st.pend, MaxRows)
                     ELSE st.persisted,
       rows      |-> st.rows,
       multi     |-> Len(text) > 1]

(***************************************************************************)
(* State.                                                                  *)
(***************************************************************************)
VARIABLES
  databaseUrl,  \* args[0], the connection string
  catalog,      \* which of Catalogs the database holds
  persisted,    \* committed rows of the user table
  txn,          \* transaction status of each connection's session
  created,      \* the pool's clients (connections that exist)
  idle,         \* the pool's idle list, most recently released last
  pending,      \* the pool's queue of waiting pool.connect() calls
  pc,           \* per request slot: where its handler is suspended
  req,          \* per request slot: the request
  client,       \* per request slot: the handler's `client` (0: none)
  local,        \* per request slot: the handler's other local variables
  log,          \* per request slot: the statements it issued (history)
  sent          \* what the handler that ended in this step returned or threw

vars == <<databaseUrl, catalog, persisted, txn, created, idle, pending,
          pc, req, client, local, log, sent>>

Reqs  == 1..NumReqs
Conns == 1..PoolMax

Cat == Catalogs[catalog]

StmtPcs == {"probe", "tables", "columns", "pks", "fks", "begin", "sql", "rollback"}

NoReq    == [method |-> "none"]
NoLocal  == [i |-> 0]
NoSent   == [type |-> "none"]

\* requests
ListResources == [method |-> "resources/list"]
ReadResource(uri) == [method |-> "resources/read", uri |-> uri]
CallTool(name) == [method |-> "tools/call", name |-> name, hasSql |-> FALSE, sql |-> <<>>]
CallQuery(sql) == [method |-> "tools/call", name |-> "query", hasSql |-> TRUE, sql |-> sql]

\* what a handler returns or throws
Fault(error) == [type |-> "fault", error |-> error]
ToolError(message) == [type |-> "result", isError |-> TRUE, text |-> message]
ToolText(message) == [type |-> "result", isError |-> FALSE, text |-> message]
ToolJson(doc) == [type |-> "result", isError |-> FALSE, json |-> doc]
ResourceList(resources) == [type |-> "result", resources |-> resources]
ResourceContents(uri, doc) ==
  [type |-> "result",
   contents |-> <<[uri |-> uri, mimeType |-> "application/json", json |-> doc]>>]

\* the end of a handler: its request, what it returned or threw, and the
\* statements it had issued
Ended(q, response, statements) ==
  [type |-> "ended", req |-> q, resp |-> response, log |-> statements]

Init ==
  /\ databaseUrl = DefaultUrl
  /\ catalog = 1
  /\ persisted = 0
  /\ txn = [c \in Conns |-> "idle"]
  /\ created = {}
  /\ idle = <<>>
  /\ pending = <<>>
  /\ pc = [r \in Reqs |-> "idle"]
  /\ req = [r \in Reqs |-> NoReq]
  /\ client = [r \in Reqs |-> 0]
  /\ local = [r \in Reqs |-> NoLocal]
  /\ log = [r \in Reqs |-> <<>>]
  /\ sent = NoSent

(***************************************************************************)
(* The pool (pg.Pool with its defaults: no connection timeout, so a        *)
(* connect() call waits in the queue for as long as the pool is full).     *)
(***************************************************************************)
\* client.release(): the client goes back to the idle list
\* (mutant: the release is forgotten)
ReleaseForgotten(idleList, c) == idleList

Release(idleList, c) == Append(idleList, c)

\* the finally block runs when the handler leaves its try block
\* (mutant: the client is released after every statement)
FinallyRunsEarly(npc) == TRUE

FinallyRuns(npc) == npc = "done"

PoolFull == Cardinality(created) >= PoolMax

\* the first statement a handler awaits once it has its client; "done" when
\* it leaves the try block without awaiting anything
FirstPc(q) ==
  IF q.method = "resources/list" THEN "tables"
  ELSE IF q.method = "resources/read" THEN "columns"
  ELSE IF q.name = "connect_database" THEN "probe"
  ELSE IF q.name \in {"list_tables", "get_database_schema"} THEN "tables"
  ELSE IF q.name = "query" THEN "begin"
  ELSE "done"

\* the handler of slot r ends with `response`: its slot is free again
Return(r, response, statements) ==
  /\ pc' = [pc EXCEPT ![r] = "idle"]
  /\ req' = [req EXCEPT ![r] = NoReq]
  /\ client' = [client EXCEPT ![r] = 0]
  /\ local' = [local EXCEPT ![r] = NoLocal]
  /\ log' = [log EXCEPT ![r] = <<>>]
  /\ sent' = Ended(req[r], response, statements)

\* the handler of slot r, holding client c, moves to npc with its locals
\* newLocal, having issued `statements`; when npc leaves the try block it
\* returns `response` and its finally block releases the client
Advance(r, c, npc, response, idleNow, newLocal, statements) ==
  /\ idle' = IF FinallyRuns(npc) THEN Release(idleNow, c) ELSE idleNow
  /\ IF npc = "done"
     THEN Return(r, response, statements)
     ELSE /\ pc' = [pc EXCEPT ![r] = npc]
          /\ client' = [client EXCEPT ![r] = c]
          /\ local' = [local EXCEPT ![r] = newLocal]
          /\ log' = [log EXCEPT ![r] = statements]
          /\ sent' = NoSent
          /\ UNCHANGED req

\* the session of client c has answered a query message
Answered(c, res) ==
  /\ txn' = [txn EXCEPT ![c] = res.txn]
  /\ persisted' = res.persisted

\* the statements of slot r once `name` on client c has been answered
Logged(r, c, name, res) ==
  Append(log[r], [stmt |-> name, conn |-> c, ok |-> res.ok])

(***************************************************************************)
(* Arrival of a request: the handler runs up to its first await.  Slots    *)
(* only name the requests in flight: a request takes the lowest free one.  *)
(***************************************************************************)
\* the pool's queue when read_resource throws on its URI: the throw comes
\* before the handler's pool.connect(), so no connect() call was queued
\* (mutant: pool.connect() was called before the URI was looked at)
ThrownAfterConnect(queue, r) == Append(queue, r)

ThrownBeforeConnect(queue, r) == queue

Receive(r, q) ==
  /\ pc[r] = "idle"
  /\ \A s \in Reqs : s < r => pc[s] # "idle"
  /\ IF q.method = "resources/read" /\ ~ParseAddress(q.uri).valid
     THEN /\ sent' = Ended(q, Fault("Invalid URL"), <<>>)
          /\ pending' = ThrownBeforeConnect(pending, r)
          /\ UNCHANGED <<pc, req, local>>
     ELSE IF q.method = "resources/read" /\ ParseAddress(q.uri).schema # SCHEMA_PATH
     THEN /\ sent' = Ended(q, Fault("Invalid resource URI"), <<>>)
          /\ pending' = ThrownBeforeConnect(pending, r)
          /\ UNCHANGED <<pc, req, local>>
     ELSE /\ pc' = [pc EXCEPT ![r] = "connect"]
          /\ req' = [req EXCEPT ![r] = q]
          /\ local' = [local EXCEPT ![r] =
                         IF q.method = "resources/read"
                         THEN [i |-> 0, address |-> ParseAddress(q.uri)]
                         ELSE NoLocal]
          /\ pending' = Append(pending, r)
          /\ sent' = NoSent
  /\ UNCHANGED <<databaseUrl, catalog, persisted, txn, created, idle, client, log>>

(***************************************************************************)
(* pool.connect() resolves for the call at the head of the queue: with the *)
(* most recently released idle client, or with a new client when there is  *)
(* none idle and the pool is not full.  The handler then runs to its first *)
(* client.query (an unknown tool name throws at once: catch, finally).     *)
(***************************************************************************)
Acquire(r) ==
  /\ pc[r] = "connect"
  /\ pending # <<>> /\ Head(pending) = r
  /\ ~(idle = <<>> /\ PoolFull)
  /\ LET c == IF idle # <<>> THEN Last(idle)
              ELSE CHOOSE n \in Conns \ created : \A m \in Conns \ created : n <= m
         idleNow == IF idle # <<>> THEN Front(idle) ELSE idle
     IN  /\ created' = created \cup {c}
         /\ Advance(r, c, FirstPc(req[r]), ToolError("Unknown tool"), idleNow,
                    local[r], log[r])
  /\ pending' = Tail(pending)
  /\ UNCHANGED <<databaseUrl, catalog, persisted, txn>>

\* pool.connect() rejects: no client is idle and the new client cannot reach
\* the database.  The call is outside every handler's try block.
ConnectFail(r) ==
  /\ pc[r] = "connect"
  /\ pending # <<>> /\ Head(pending) = r
  /\ idle = <<>> /\ ~PoolFull
  /\ Return(r, Fault("connect failed"), log[r])
  /\ pending' = Tail(pending)
  /\ UNCHANGED <<databaseUrl, catalog, persisted, txn, created, idle>>

\* An idle client is closed by the pool's idle timeout (pg.Pool's default
\* idleTimeoutMillis); its session ends with it.
IdleTimeout(c) ==
  /\ \E i \in 1..Len(idle) : idle[i] = c
  /\ idle' = SelectSeq(idle, LAMBDA d : d # c)
  /\ created' = created \ {c}
  /\ txn' = [txn EXCEPT ![c] = "idle"]
  /\ sent' = NoSent
  /\ UNCHANGED <<databaseUrl, catalog, persisted, pending, pc, req, client,
                 local, log>>

(***************************************************************************)
(* list_resources                                                          *)
(***************************************************************************)
ResourceName(t) == <<"\"">> \o t \o <<"\"", " database schema">>

ListResourcesTables(r) ==
  /\ pc[r] = "tables" /\ req[r].method = "resources/list"
  /\ LET c == client[r]
         res == RunQuery(<<"select">>, txn[c], persisted)
         rows == TablesQuery(Cat)
     IN  /\ Answered(c, res)
         /\ Advance(r, c, "done",
                    IF res.ok
                    THEN ResourceList([i \in 1..Len(rows) |->
                           [uri |-> ResourceUri(rows[i].table_name, databaseUrl),
                            mimeType |-> "application/json",
                            name |-> ResourceName(rows[i].table_name)]])
                    ELSE Fault("query failed"),
                    idle, local[r], Logged(r, c, "tables", res))
  /\ UNCHANGED <<databaseUrl, catalog, created, pending>>

(***************************************************************************)
(* read_resource                                                           *)
(***************************************************************************)
ReadResourceColumns(r) ==
  /\ pc[r] = "columns" /\ req[r].method = "resources/read"
  /\ LET c == client[r]
         res == RunQuery(<<"select">>, txn[c], persisted)
     IN  /\ Answered(c, res)
         /\ Advance(r, c, IF res.ok THEN "pks" ELSE "done", Fault("query failed"), idle,
                    [i |-> 0, address |-> local[r].address,
                     columnsResult |-> ColumnsQuery(Cat, local[r].address)],
                    Logged(r, c, "columns", res))
  /\ UNCHANGED <<databaseUrl, catalog, created, pending>>

ReadResourcePrimaryKeys(r) ==
  /\ pc[r] = "pks" /\ req[r].method = "resources/read"
  /\ LET c == client[r]
         res == RunQuery(<<"select">>, txn[c], persisted)
     IN  /\ Answered(c, res)
         /\ Advance(r, c, IF res.ok THEN "fks" ELSE "done", Fault("query failed"), idle,
                    [i |-> 0, address |-> local[r].address,
                     columnsResult |-> local[r].columnsResult,
                     pkResult |-> PrimaryKeysQuery(Cat, local[r].address)],
                    Logged(r, c, "pks", res))
  /\ UNCHANGED <<databaseUrl, catalog, created, pending>>

ForeignKeyDescriptors(rows) ==
  [i \in 1..Len(rows) |->
     [name |-> rows[i].constraint_name,
      constrained_columns |-> <<rows[i].column_name>>,
      referred_table |-> rows[i].foreign_table_name,
      referred_columns |-> <<rows[i].foreign_column_name>>]]

ReadResourceForeignKeys(r) ==
  /\ pc[r] = "fks" /\ req[r].method = "resources/read"
  /\ LET c == client[r]
         res == RunQuery(<<"select">>, txn[c], persisted)
         l == local[r]
         fkResult == ForeignKeysQuery(Cat, l.address)
         schemaInfo ==
           [hasName |-> l.address.hasTable,
            name |-> l.address.tableName,
            columns |-> ColumnDescriptors(l.columnsResult),
            primary_keys |-> [i \in 1..Len(l.pkResult) |-> l.pkResult[i].column_name],
            foreign_keys |-> ForeignKeyDescriptors(fkResult)]
     IN  /\ Answered(c, res)
         /\ Advance(r, c, "done",
                    IF res.ok THEN ResourceContents(req[r].uri, schemaInfo)
                    ELSE Fault("query failed"),
                    idle, local[r], Logged(r, c, "fks", res))
  /\ UNCHANGED <<databaseUrl, catalog, created, pending>>

(***************************************************************************)
(* call_tool.  A rejected client.query inside the try block is caught and  *)
(* returned as an isError response; the finally block releases the client. *)
(***************************************************************************)
ConnectDatabase(r) ==
  /\ pc[r] = "probe"
  /\ LET c == client[r]
         res == RunQuery(<<"select">>, txn[c], persisted)
     IN  /\ Answered(c, res)
         /\ Advance(r, c, "done",
                    IF res.ok THEN ToolText("Successfully connected to database")
                    ELSE ToolError("query failed"),
                    idle, local[r], Logged(r, c, "SELECT 1", res))
  /\ UNCHANGED <<databaseUrl, catalog, created, pending>>

\* tablesResult.rows.map(r => r.table_name)
\* (mutant: the first row is left out)
TableNamesButFirst(rows) ==
  [i \in 1..(IF rows = <<>> THEN 0 ELSE Len(rows) - 1) |-> rows[i + 1].table_name]

TableNames(rows) == [i \in 1..Len(rows) |-> rows[i].table_name]

ListTables(r) ==
  /\ pc[r] = "tables" /\ req[r].method = "tools/call" /\ req[r].name = "list_tables"
  /\ LET c == client[r]
         res == RunQuery(<<"select">>, txn[c], persisted)
         rows == TablesQuery(Cat)
     IN  /\ Answered(c, res)
         /\ Advance(r, c, "done",
                    IF res.ok
                    THEN ToolJson(TableNames(rows))
                    ELSE ToolError("query failed"),
                    idle, local[r], Logged(r, c, "tables", res))
  /\ UNCHANGED <<databaseUrl, catalog, created, pending>>

EmptySchemaInfo == [tables |-> <<>>, views |-> <<>>, indexes |-> <<>>]

GetDatabaseSchemaTables(r) ==
  /\ pc[r] = "tables" /\ req[r].method = "tools/call"
  /\ req[r].name = "get_database_schema"
  /\ LET c == client[r]
         res == RunQuery(<<"select">>, txn[c], persisted)
         rows == TablesQuery(Cat)
     IN  /\ Answered(c, res)
         /\ Advance(r, c, IF res.ok /\ rows # <<>> THEN "columns" ELSE "done",
                    IF res.ok THEN ToolJson(EmptySchemaInfo)
                    ELSE ToolError("query failed"),
                    idle,
                    [i |-> 1, tables |-> rows, schemaInfo |-> EmptySchemaInfo],
                    Logged(r, c, "tables", res))
  /\ UNCHANGED <<databaseUrl, catalog, created, pending>>

\* schemaInfo.tables[table.table_name] = {...}
\* (mutant: the per-table entry carries the column names as primary keys)
TableEntryWithKeys(name, rows) ==
  [name |-> name,
   columns |-> ColumnDescriptors(rows),
   primary_keys |-> [i \in 1..Len(rows) |-> rows[i].column_name],
   foreign_keys |-> <<>>]

TableEntry(name, rows) ==
  [name |-> name,
   columns |-> ColumnDescriptors(rows),
   primary_keys |-> <<>>,
   foreign_keys |-> <<>>]

\* one iteration of the loop over tables.rows
GetDatabaseSchemaColumns(r) ==
  /\ pc[r] = "columns" /\ req[r].method = "tools/call"
  /\ LET c == client[r]
         l == local[r]
         res == RunQuery(<<"select">>, txn[c], persisted)
         name == l.tables[l.i].table_name
         rows == ColumnsQuery(Cat, [hasTable |-> TRUE, tableName |-> name])
         schemaInfo == [l.schemaInfo EXCEPT
                          !.tables = (name :> TableEntry(name, rows)) @@ @]
         more == l.i < Len(l.tables)
     IN  /\ Answered(c, res)
         /\ Advance(r, c, IF res.ok /\ more THEN "columns" ELSE "done",
                    IF res.ok THEN ToolJson(schemaInfo) ELSE ToolError("query failed"),
                    idle,
                    [i |-> l.i + 1, tables |-> l.tables, schemaInfo |-> schemaInfo],
                    Logged(r, c, "columns", res))
  /\ UNCHANGED <<databaseUrl, catalog, created, pending>>

\* await client.query("BEGIN TRANSACTION READ ONLY"), then the call of
\* client.query(request.params.arguments?.sql), which throws at once when
\* the text is undefined
QueryBegin(r) ==
  /\ pc[r] = "begin"
  /\ LET c == client[r]
         res == RunQuery(<<"begin_ro">>, txn[c], persisted)
     IN  /\ Answered(c, res)
         /\ Advance(r, c, IF res.ok /\ req[r].hasSql THEN "sql" ELSE "done",
                    IF res.ok THEN ToolError("Client was passed a null or undefined query")
                    ELSE ToolError("query failed"),
                    idle, local[r], Logged(r, c, "BEGIN", res))
  /\ UNCHANGED <<databaseUrl, catalog, created, pending>>

\* the caller's text has been answered; on success the handler sends ROLLBACK
QuerySql(r) ==
  /\ pc[r] = "sql"
  /\ LET c == client[r]
         res == RunQuery(req[r].sql, txn[c], persisted)
     IN  /\ Answered(c, res)
         /\ Advance(r, c, IF res.ok THEN "rollback" ELSE "done",
                    ToolError("query failed"), idle,
                    [i |-> 0,
                     result |-> [hasRows |-> ~res.multi,
                                 rows |-> IF res.multi THEN <<>> ELSE res.rows]],
                    Logged(r, c, "sql", res))
  /\ UNCHANGED <<databaseUrl, catalog, created, pending>>

QueryRollback(r) ==
  /\ pc[r] = "rollback"
  /\ LET c == client[r]
         res == RunQuery(<<"rollback">>, txn[c], persisted)
     IN  /\ Answered(c, res)
         /\ Advance(r, c, "done",
                    IF res.ok THEN ToolJson(local[r].result)
                    ELSE ToolError("query failed"),
                    idle, local[r], Logged(r, c, "ROLLBACK", res))
  /\ UNCHANGED <<databaseUrl, catalog, created, pending>>

(***************************************************************************)
(* Specifications.                                                         *)
(***************************************************************************)
\* a step of the handler of slot r after its request was received
Handle(r) ==
  \/ Acquire(r)
  \/ ConnectFail(r)
  \/ ListResourcesTables(r)
  \/ ReadResourceColumns(r)
  \/ ReadResourcePrimaryKeys(r)
  \/ ReadResourceForeignKeys(r)
  \/ ConnectDatabase(r)
  \/ ListTables(r)
  \/ GetDatabaseSchemaTables(r)
  \/ GetDatabaseSchemaColumns(r)
  \/ QueryBegin(r)
  \/ QuerySql(r)
  \/ QueryRollback(r)

\* the texts callers pass to the query tool
SqlTexts ==
  {<<"select">>, <<"insert">>, <<"error">>, <<"commit", "insert">>}

ToolNames == {"connect_database", "list_tables", "get_database_schema", "drop_tables"}

\* requests of the concurrent specification
Requests ==
  {ListResources}
  \cup {ReadResource(ResourceUri(T_u, DefaultUrl)), ReadResource(DefaultUrl)}
  \cup {CallTool(n) : n \in ToolNames \cup {"query"}}
  \cup {CallQuery(t) : t \in SqlTexts}

Next ==
  \/ \E r \in Reqs :
       \/ \E q \in Requests : Receive(r, q)
       \/ Handle(r)
  \/ \E c \in Conns : IdleTimeout(c)

Spec == Init /\ [][Next]_vars

\* the event loop runs every continuation that is ready
LiveSpec == Spec /\ \A r \in Reqs : WF_vars(Handle(r))

(***************************************************************************)
(* The sequential specification: one request at a time, over every         *)
(* connection string and catalog of the model and a larger set of          *)
(* resource URIs.                                                          *)
(***************************************************************************)
InitSeq ==
  /\ databaseUrl \in DatabaseUrls
  /\ catalog \in 1..Len(Catalogs)
  /\ persisted = 0
  /\ txn = [c \in Conns |-> "idle"]
  /\ created = {}
  /\ idle = <<>>
  /\ pending = <<>>
  /\ pc = [r \in Reqs |-> "idle"]
  /\ req = [r \in Reqs |-> NoReq]
  /\ client = [r \in Reqs |-> 0]
  /\ local = [r \in Reqs |-> NoLocal]
  /\ log = [r \in Reqs |-> <<>>]
  /\ sent = NoSent

\* path segments and suffixes clients put into URIs
Segments == {SCHEMA_PATH, SCHEMA_PATH \o <<"s">>, T_u, <<>>, Dot, DotDot}
Suffixes == {<<"?", "x">>, <<"#", "x">>, <<"?", "x", "/", "y">>}

PathTexts ==
  {<<>>}
  \cup {<<"/">> \o a : a \in Segments}
  \cup {<<"/">> \o a \o <<"/">> \o b : a \in Segments, b \in Segments}
  \cup {<<"/">> \o T_u \o <<"/">> \o SCHEMA_PATH \o <<"/">> \o a : a \in Segments}
  \cup {<<"/">> \o T_u \o <<"/">> \o a \o x : a \in {SCHEMA_PATH, T_u}, x \in Suffixes}

\* the names of every table of every catalog
AllTableNames ==
  UNION {{Catalogs[k].tables[i].table_name : i \in 1..Len(Catalogs[k].tables)} :
           k \in 1..Len(Catalogs)}

Uris(url) ==
  {Postgres \o <<":", "/", "/">> \o UserName \o <<"@">> \o HostName \o p :
     p \in PathTexts}
  \cup {ResourceUri(t, url) : t \in AllTableNames}
  \cup {Postgres \o <<":">> \o SCHEMA_PATH,
        Postgres \o <<":">> \o T_u \o <<"/">> \o SCHEMA_PATH,
        T_u \o <<"/">> \o SCHEMA_PATH}

SeqRequests ==
  {ListResources, CallTool("list_tables"), CallTool("get_database_schema")}
  \cup {ReadResource(u) : u \in Uris(databaseUrl)}

NextSeq ==
  \/ \E q \in SeqRequests : Receive(1, q)
  \/ Acquire(1)
  \/ ConnectFail(1)
  \/ ListResourcesTables(1)
  \/ ReadResourceColumns(1)
  \/ ReadResourcePrimaryKeys(1)
  \/ ReadResourceForeignKeys(1)
  \/ ListTables(1)
  \/ GetDatabaseSchemaTables(1)
  \/ GetDatabaseSchemaColumns(1)
  \/ \E c \in Conns : IdleTimeout(c)

SeqSpec == InitSeq /\ [][NextSeq]_vars

(***************************************************************************)
(* Properties.                                                             *)
(***************************************************************************)
Range(f) == {f[i] : i \in DOMAIN f}

InFlight(r) == pc[r] \in StmtPcs

\* a handler has ended in this step
HasEnded == sent.type = "ended"

EndedAs(method) == HasEnded /\ sent.req.method = method

EndedTool(name) == EndedAs("tools/call") /\ sent.req.name = name

\* the request that ended began its read-only transaction successfully
BeganOk ==
  /\ sent.log # <<>>
  /\ sent.log[1].stmt = "BEGIN"
  /\ sent.log[1].ok

\* C1: once the query tool has begun its read-only transaction on a
\* connection, the request does not end before a ROLLBACK was issued on that
\* same connection, whether the caller's SQL succeeded, failed on the server
\* or was rejected by the client.
C1_RollbackOnEveryOutcome ==
  (HasEnded /\ BeganOk) =>
    /\ Last(sent.log).stmt = "ROLLBACK"
    /\ Last(sent.log).conn = sent.log[1].conn

\* C2: no step of the server changes the persisted contents of the database:
\* nothing done through the query tool is ever committed.
C2_NoPersistedChange == [][persisted' = persisted]_vars

\* C3: a client is in the idle list at most once, and every client of the
\* pool is either idle or held by exactly one request that is between its
\* acquisition and its return; so with no such request nothing is checked out.
C3_ReleasedOnEveryExit ==
  /\ \A i, j \in 1..Len(idle) : i # j => idle[i] # idle[j]
  /\ \A c \in created :
       (c \in Range(idle)) # (\E r \in Reqs : InFlight(r) /\ client[r] = c)
  /\ (\A r \in Reqs : ~InFlight(r)) => Len(idle) = Cardinality(created)

\* a tool call has ended in an isError response after a failed statement, its
\* client is back in the idle list and nothing is checked out
C3_Witness ==
  /\ EndedAs("tools/call")
  /\ sent.resp.type = "result" /\ sent.resp.isError
  /\ sent.log # <<>> /\ ~Last(sent.log).ok
  /\ Last(sent.log).conn \in Range(idle)
  /\ \A s \in Reqs : ~InFlight(s)

\* C4: every call_tool request ends with a response carrying a text block
\* and an isError flag, never with a protocol-level fault.
C4_AlwaysToolResponse ==
  EndedAs("tools/call") => sent.resp.type = "result"

\* the URI as a client reads it: its path, and the text after the path's last "/"
HasScheme(uri) ==
  LET i == FirstIndex(uri, {":", "/", "?", "#"}) IN i > 1 /\ uri[i] = ":"

UriPath(uri) ==
  LET rest == Drop(uri, FirstIndex(uri, {":"}))
      hier == IF StartsWith(rest, <<"/", "/">>)
              THEN From(Drop(rest, 2), {"/", "?", "#"})
              ELSE rest
  IN  Before(hier, {"?", "#"})

TrailingSegment(uri) ==
  LET p == UriPath(uri)
      k == IF \E i \in 1..Len(p) : p[i] = "/"
           THEN CHOOSE i \in 1..Len(p) :
                  p[i] = "/" /\ \A j \in (i + 1)..Len(p) : p[j] # "/"
           ELSE 0
  IN  Drop(p, k)

WellAddressed(uri) == HasScheme(uri) /\ TrailingSegment(uri) = SCHEMA_PATH

\* C5: read_resource throws "Invalid resource URI" (a fault, not a response)
\* exactly for the URIs whose trailing path segment is not "schema": such a
\* request never gets past the check, and a request whose URI ends in the
\* segment "schema" never ends with that error.  A text that is no URI at
\* all is a fault as well.
C5_InvalidAddress ==
  /\ \A r \in Reqs :
       (pc[r] # "idle" /\ req[r].method = "resources/read") =>
         WellAddressed(req[r].uri)
  /\ EndedAs("resources/read") =>
       IF ~HasScheme(sent.req.uri)
       THEN sent.resp.type = "fault"
       ELSE IF TrailingSegment(sent.req.uri) # SCHEMA_PATH
       THEN sent.resp = Fault("Invalid resource URI")
       ELSE sent.resp # Fault("Invalid resource URI")

\* a URI ending in "schema/" has been rejected
C5_Witness ==
  /\ EndedAs("resources/read")
  /\ sent.resp = Fault("Invalid resource URI")
  /\ Len(sent.req.uri) > Len(SCHEMA_PATH) + 1
  /\ Last(sent.req.uri) = "/"
  /\ SubSeq(sent.req.uri, Len(sent.req.uri) - Len(SCHEMA_PATH), Len(sent.req.uri) - 1)
       = SCHEMA_PATH

\* C6: every URI that list_resources returns for a table name without "/"
\* is accepted by read_resource's parsing and yields that table name and the
\* path tag "schema".
C6_RoundTrip ==
  (EndedAs("resources/list") /\ sent.resp.type = "result") =>
    \A i \in 1..Len(sent.resp.resources) :
      LET t == TablesQuery(Cat)[i].table_name
          p == ParseAddress(sent.resp.resources[i].uri)
      IN  "/" \notin Range(t) =>
            /\ p.valid
            /\ p.schema = SCHEMA_PATH
            /\ p.hasTable
            /\ p.tableName = t

\* C7: the resource URIs do not depend on the password of the connection
\* string, and do not contain it.
C7_PasswordRedacted ==
  (EndedAs("resources/list") /\ sent.resp.type = "result") =>
    \A sc \in Schemes, p1 \in Passwords :
      databaseUrl = ConnString(sc, UserName, p1, HostName, DbName) =>
        /\ \A p2 \in Passwords :
             \A i \in 1..Len(sent.resp.resources) :
               sent.resp.resources[i].uri =
                 ResourceUri(TablesQuery(Cat)[i].table_name,
                             ConnString(sc, UserName, p2, HostName, DbName))
        /\ p1 # <<>> =>
             \A i \in 1..Len(sent.resp.resources) :
               ~Contains(sent.resp.resources[i].uri, p1)

\* resources were listed by a server whose connection string has a password
C7_Witness ==
  /\ EndedAs("resources/list")
  /\ sent.resp.type = "result"
  /\ Len(sent.resp.resources) > 0
  /\ ParseUrl(databaseUrl).password # <<>>

\* C8: a request that is between acquisition and return holds a client that
\* is not in the idle list and is held by no other such request, and every
\* statement it has issued went to that client.
C8_ExclusiveOwnership ==
  \A r \in Reqs :
    InFlight(r) =>
      /\ client[r] \in created
      /\ client[r] \notin Range(idle)
      /\ \A s \in Reqs \ {r} : InFlight(s) => client[s] # client[r]
      /\ \A i \in 1..Len(log[r]) : log[r][i].conn = client[r]

\* a request has issued a statement and awaits the next while another waits
\* for a client
C8_Witness ==
  \E r, s \in Reqs :
    /\ InFlight(r) /\ log[r] # <<>>
    /\ pc[s] = "connect"

PoolExhausted == PoolFull /\ idle = <<>>

\* C9: a pool.connect() call made while the pool is exhausted stays waiting
\* (it is not failed), and every waiting request eventually completes.
C9_WaitersComplete ==
  /\ [][\A r \in Reqs : (pc[r] = "connect" /\ PoolExhausted) => pc'[r] = "connect"]_vars
  /\ \A r \in Reqs : (pc[r] = "connect") ~> (pc[r] = "idle")

\* more requests are in flight than the pool has connections, and one waits
C9_Witness ==
  /\ PoolExhausted
  /\ Cardinality({r \in Reqs : pc[r] # "idle"}) > PoolMax
  /\ \E r \in Reqs : pc[r] = "connect"

\* the rows of the column catalog for table name t, in catalog order
CatalogColumns(t) ==
  LET Named(row) == row.table_name = t IN SelectSeq(Cat.columns, Named)

PublicTableNames ==
  {Cat.tables[i].table_name :
     i \in {j \in 1..Len(Cat.tables) : Cat.tables[j].table_schema = "public"}}

ReadSchema ==
  /\ EndedAs("resources/read")
  /\ sent.resp.type = "result"

\* the table schema that read_resource has returned
SchemaRead == sent.resp.contents[1].json

\* the names of the tables of the catalog snapshot, in any schema
CatalogTableNames == {Cat.tables[i].table_name : i \in 1..Len(Cat.tables)}

\* C12: when read_resource returns the schema of a table name that is present
\* in the catalog, its columns sequence has as many entries as the column
\* catalog has rows of that table name, and the entries describe these rows
\* in catalog order.
C12_ColumnsMatchCatalog ==
  (ReadSchema /\ SchemaRead.hasName /\ SchemaRead.name \in CatalogTableNames) =>
    LET rows == CatalogColumns(SchemaRead.name)
    IN  /\ Len(SchemaRead.columns) = Len(rows)
        /\ \A j \in 1..Len(rows) :
             /\ SchemaRead.columns[j].name = rows[j].column_name
             /\ SchemaRead.columns[j].type = rows[j].data_type
             /\ SchemaRead.columns[j].nullable = (rows[j].is_nullable = "YES")
             /\ SchemaRead.columns[j].default = rows[j].column_default

\* the schema of a table with three column rows, two of them nullable "NO",
\* has been returned
C12_Witness ==
  /\ ReadSchema
  /\ SchemaRead.hasName /\ SchemaRead.name \in CatalogTableNames
  /\ Len(SchemaRead.columns) = 3
  /\ Len(CatalogColumns(SchemaRead.name)) = 3

\* the transaction status in which each statement of a message is executed
\* by a session that is in status st when the message arrives
RECURSIVE TxnBefore(_, _)
TxnBefore(text, st) ==
  IF text = <<>> \/ ~st.ok THEN <<>>
  ELSE <<st.txn>> \o TxnBefore(Tail(text), RunStatement(Head(text), st))

\* C13: while the caller's SQL of a query call is being executed, the only
\* statement the request issued before it is a BEGIN TRANSACTION READ ONLY
\* that succeeded on the same connection, and every statement of the SQL is
\* executed inside the read-only transaction; a request whose BEGIN failed
\* ends without having sent the SQL.
C13_SqlInsideReadOnly ==
  /\ \A r \in Reqs :
       pc[r] = "sql" =>
         /\ log[r] = <<[stmt |-> "BEGIN", conn |-> client[r], ok |-> TRUE]>>
         /\ LET before == TxnBefore(req[r].sql,
                                    [txn |-> txn[client[r]], persisted |-> persisted,
                                     pend |-> 0, ok |-> TRUE, rows |-> <<>>])
            IN  \A i \in 1..Len(before) : before[i] = "ro"
  /\ (EndedTool("query") /\ sent.log # <<>> /\ ~sent.log[1].ok) =>
       Len(sent.log) = 1

\* C14: every client in the idle list has a session with no transaction open
\* or aborted, so a request that reuses it is answered as on a fresh
\* connection: connect_database, whose SELECT 1 cannot fail on a fresh
\* connection, never ends in an isError response once it has a client.
C14_ReturnedClean ==
  /\ \A i \in 1..Len(idle) : txn[idle[i]] = "idle"
  /\ (EndedTool("connect_database") /\ sent.resp.type = "result") =>
       ~sent.resp.isError

\* the column names of the table schema that read_resource has returned
ColumnNamesRead == {SchemaRead.columns[j].name : j \in 1..Len(SchemaRead.columns)}

\* C15: in every table schema that read_resource returns, each name in
\* primary_keys and each constrained column of each foreign key is the name
\* of an entry of the schema's columns.
C15_KeysAreColumns ==
  ReadSchema =>
    /\ \A i \in 1..Len(SchemaRead.primary_keys) :
         SchemaRead.primary_keys[i] \in ColumnNamesRead
    /\ \A i \in 1..Len(SchemaRead.foreign_keys) :
         \A k \in 1..Len(SchemaRead.foreign_keys[i].constrained_columns) :
           SchemaRead.foreign_keys[i].constrained_columns[k] \in ColumnNamesRead

\* the request that ended named, by the code's own parsing of its URI, a
\* table that the catalog snapshot does not have
AbsentTableRead ==
  /\ EndedAs("resources/read")
  /\ WellAddressed(sent.req.uri)
  /\ ParseAddress(sent.req.uri).hasTable
  /\ ParseAddress(sent.req.uri).tableName \notin CatalogTableNames

\* C16: a read_resource request for a well-formed URI that names a table
\* absent from the catalog is answered, once it has a connection, with a
\* table schema of that name whose columns, primary_keys and foreign_keys
\* are empty; the only way it fails is the way every request fails, by not
\* getting a connection.
C16_AbsentTableIsEmpty ==
  AbsentTableRead =>
    IF sent.log = <<>>
    THEN sent.resp = Fault("connect failed")
    ELSE /\ sent.resp.type = "result"
         /\ Len(sent.resp.contents) = 1
         /\ sent.resp.contents[1].uri = sent.req.uri
         /\ SchemaRead.hasName
         /\ SchemaRead.name = ParseAddress(sent.req.uri).tableName
         /\ SchemaRead.columns = <<>>
         /\ SchemaRead.primary_keys = <<>>
         /\ SchemaRead.foreign_keys = <<>>

\* the schema of table u has been read from a catalog that has tables, but
\* none of that name
C16_Witness ==
  /\ AbsentTableRead
  /\ ReadSchema
  /\ SchemaRead.name = T_u
  /\ Cat.tables # <<>>
  /\ SchemaRead.columns = <<>>

\* the request is a query call whose arguments have no sql
LacksSql(q) == q.method = "tools/call" /\ q.name = "query" /\ ~q.hasSql

\* C17: a query call without sql never has a statement in flight or issued
\* (it begins no transaction), and the response it gets is an isError
\* response.
C17_MissingSqlSendsNothing ==
  /\ \A r \in Reqs :
       (pc[r] # "idle" /\ LacksSql(req[r])) =>
         (pc[r] = "connect" /\ log[r] = <<>>)
  /\ (HasEnded /\ LacksSql(sent.req) /\ sent.resp.type = "result") =>
       (sent.resp.isError /\ sent.log = <<>>)

\* a read_resource request was rejected because of its URI
Rejected(e) ==
  /\ e.type = "ended"
  /\ e.req.method = "resources/read"
  /\ e.resp \in {Fault("Invalid URL"), Fault("Invalid resource URI")}

\* C18: the step in which read_resource rejects a request for its URI
\* changes nothing of the pool (its clients, idle list and queue), of the
\* sessions and of the clients and statements of the requests, and the
\* rejected request has issued no statement.
C18_RejectionLeavesPool ==
  [][Rejected(sent') =>
       /\ sent'.log = <<>>
       /\ UNCHANGED <<created, idle, pending, txn, persisted, client, log>>]_vars

\* a request is rejected for its URI while another holds the pool's client
\* and has a statement in flight
C18_Witness ==
  /\ Rejected(sent)
  /\ \E r \in Reqs : InFlight(r) /\ client[r] \in created

=============================================================================
